---- MODULE Spec2Model ----
(***************************************************************************)
(* TaskService of spiffworkflow-backend (services/task_service.py): the    *)
(* synchronisation of a live SpiffWorkflow task tree with the bpmn_process,*)
(* task, process_instance_event and json_data tables.                      *)
(*                                                                         *)
(* The live workflow (the engine's side) is a fixed tree of three nested   *)
(* workflows whose task states advance by engine steps; the storage side   *)
(* and the TaskService buffers are translated from the source.             *)
(* None is 0 for ids, hashes and times and "" for guids.                   *)
(* A pass that raises is rolled back by its caller: it stores nothing.     *)
(***************************************************************************)
EXTENDS Integers, Sequences, FiniteSets, Bags, TLC

VARIABLES
    \* ---- the live SpiffWorkflow objects (engine side)
    live_state,        \* task guid -> TaskState value of the live task
    last_task,         \* workflow -> guid of workflow.last_task ("" = None)
    success,           \* workflow -> workflow.success
    python_env,        \* script_engine.environment.user_defined_state()
    \* ---- storage (the tables, as committed after a pass)
    bpmn_process_tbl,  \* sequence of BpmnProcessModel rows, id = index
    task_tbl,          \* guid -> TaskModel row (the first one with the guid)
    task_row_count,    \* guid -> number of task rows stored with the guid
    process_instance_event_tbl, \* bag of ProcessInstanceEventModel rows
    json_data_tbl,     \* set of JsonDataModel rows [hash, data]
    process_instance_bpmn_process_id, \* process_instance.bpmn_process_id
    database_type,     \* SPIFFWORKFLOW_BACKEND_DATABASE_TYPE
    \* ---- the TaskService object of the latest pass (its four buffers)
    bpmn_processes,    \* self.bpmn_processes: key -> bpmn process id
    task_models,       \* self.task_models: guid -> TaskModel
    json_data_dicts,   \* self.json_data_dicts: hash -> data
    process_instance_events, \* self.process_instance_events: guid -> event
    task_models_constructed, \* the TaskModel(...) calls of the latest pass
    task_models_updated, \* its update_task_model_with_spiff_task calls, in order
    last_op,           \* what the latest operation was, and how it ended
    passes,            \* number of passes run so far
    \* ---- two sessions executing insert_or_update_json_data_records
    flush_rows,        \* session -> its list_of_dicts and how many are inserted
    flush_error,       \* session -> the statement raised
    \* ---- a pass in flight, taken one call at a time
    running            \* its position, its TaskService and its entry task

vars == <<live_state, last_task, success, python_env, bpmn_process_tbl, task_tbl,
          task_row_count, process_instance_event_tbl, json_data_tbl,
          process_instance_bpmn_process_id, database_type, bpmn_processes,
          task_models, json_data_dicts, process_instance_events,
          task_models_constructed, task_models_updated, last_op, passes,
          flush_rows, flush_error,
          running>>

live_vars == <<live_state, last_task, success, python_env>>
store_vars == <<bpmn_process_tbl, task_tbl, task_row_count,
                process_instance_event_tbl, json_data_tbl,
                process_instance_bpmn_process_id>>
service_vars == <<bpmn_processes, task_models, json_data_dicts,
                  process_instance_events, task_models_constructed,
                  task_models_updated>>
flush_vars == <<flush_rows, flush_error>>

\* Number of passes (and resets) a behaviour runs.
MaxPasses == 2

-----------------------------------------------------------------------------
(* Generic helpers *)

Put(f, k, v) == [x \in (DOMAIN f) \cup {k} |-> IF x = k THEN v ELSE f[x]]

Reverse(seq) == [i \in 1..Len(seq) |-> seq[Len(seq) + 1 - i]]

RECURSIVE RemoveFirst(_, _)
RemoveFirst(seq, x) ==
    IF seq = <<>> THEN <<>>
    ELSE IF Head(seq) = x THEN Tail(seq)
    ELSE <<Head(seq)>> \o RemoveFirst(Tail(seq), x)

InSeq(x, seq) == \E i \in 1..Len(seq) : seq[i] = x

-----------------------------------------------------------------------------
(* SpiffWorkflow's TaskState and TaskStateNames *)

TaskState == [MAYBE |-> 1, LIKELY |-> 2, FUTURE |-> 4, WAITING |-> 8,
              READY |-> 16, STARTED |-> 32, COMPLETED |-> 64,
              ERROR |-> 128, CANCELLED |-> 256]

TaskStateNames == [v \in {TaskState[n] : n \in DOMAIN TaskState} |->
                     CHOOSE n \in DOMAIN TaskState : TaskState[n] = v]

\* TaskState.PREDICTED_MASK = MAYBE | LIKELY; every state is a single bit.
HasPredictedState(state) == state % 4 # 0

-----------------------------------------------------------------------------
(* The live task tree: top invokes S1 through b1, S1 invokes S2 through b2 *)

Workflows == {"top", "S1", "S2"}
Tasks == {"r0", "s0", "a", "y", "z", "b1", "r1", "s1", "b2", "r2", "s2", "c"}

TaskWorkflow == [t \in Tasks |->
    IF t \in {"r0", "s0", "a", "y", "z", "b1"} THEN "top"
    ELSE IF t \in {"r1", "s1", "b2"} THEN "S1" ELSE "S2"]

TaskParent ==
    [r0 |-> "", s0 |-> "r0", a |-> "s0", y |-> "a", z |-> "y", b1 |-> "a",
     r1 |-> "", s1 |-> "r1", b2 |-> "s1",
     r2 |-> "", s2 |-> "r2", c |-> "s2"]

TaskChildren ==
    [r0 |-> <<"s0">>, s0 |-> <<"a">>, a |-> <<"y", "b1">>, y |-> <<"z">>,
     z |-> <<>>, b1 |-> <<>>,
     r1 |-> <<"s1">>, s1 |-> <<"b2">>, b2 |-> <<>>,
     r2 |-> <<"s2">>, s2 |-> <<"c">>, c |-> <<>>]

TaskSpecName == [t \in Tasks |->
    IF t \in {"r0", "r1", "r2"} THEN "Root"
    ELSE IF t \in {"s0", "s1", "s2"} THEN "Start" ELSE t]

\* task_definition.typename of the two boundary tasks
TaskTypename == [t \in Tasks |->
    IF t = "b1" THEN "CallActivity"
    ELSE IF t = "b2" THEN "SubProcess" ELSE "Task"]

\* workflow.task_tree, and the tasks of a workflow parents first
WorkflowTasks ==
    [top |-> <<"r0", "s0", "a", "y", "z", "b1">>,
     S1 |-> <<"r1", "s1", "b2">>,
     S2 |-> <<"r2", "s2", "c">>]

\* spiff_workflow.outer_workflow (the top level is its own outer workflow)
OuterWorkflow == [top |-> "top", S1 |-> "top", S2 |-> "S1"]

\* the key of a sub workflow in top_level_workflow.subprocesses
SubprocessKey == [top |-> "", S1 |-> "b1", S2 |-> "b2"]

\* top_level_workflow.subprocesses: the sub workflows are created when b1
\* starts (b2 starts together with S1); a task not yet created has state 0.
Subprocesses == IF live_state["s1"] = 0 THEN {} ELSE {"S1", "S2"}

WorkflowExists(w) == w = "top" \/ w \in Subprocesses
TaskExists(t) == WorkflowExists(TaskWorkflow[t])

\* Payloads are dicts in insertion order: sequences of <<key, value>>.
KeyCode == [a |-> 1, b |-> 2]
EmptyPayload == <<>>
TaskPayload == [t \in Tasks |->
    IF t \in {"a", "c"} THEN << <<"a", 1>>, <<"b", 1>> >>
    ELSE IF t \in {"y", "b2"} THEN << <<"b", 1>>, <<"a", 1>> >>
    ELSE IF t = "z" THEN << <<"a", 1>> >>
    ELSE << <<"b", 1>> >>]

\* spiff_task.data and workflow.data of the live objects
LiveTaskData(t) ==
    IF live_state[t] = TaskState.COMPLETED /\ TaskSpecName[t] \notin {"Root", "Start"}
    THEN TaskPayload[t] ELSE EmptyPayload
LiveWorkflowData(w) ==
    IF last_task[w] = "" THEN EmptyPayload ELSE TaskPayload[last_task[w]]

CreatedState == [t \in Tasks |->
    IF TaskSpecName[t] \in {"Root", "Start"} THEN TaskState.COMPLETED
    ELSE IF t \in {"a", "b2", "c"} THEN TaskState.READY
    ELSE IF t = "y" THEN TaskState.LIKELY
    ELSE TaskState.MAYBE]

InitialLiveState == [t \in Tasks |->
    IF TaskWorkflow[t] = "top" THEN CreatedState[t] ELSE 0]

-----------------------------------------------------------------------------
(* json.dumps(sort_keys=True) and sha256 *)

RECURSIVE InsertByKey(_, _)
InsertByKey(sorted, e) ==
    IF sorted = <<>> THEN <<e>>
    ELSE IF KeyCode[e[1]] <= KeyCode[Head(sorted)[1]] THEN <<e>> \o sorted
    ELSE <<Head(sorted)>> \o InsertByKey(Tail(sorted), e)

\* json.dumps(d) without sort_keys: the items in the order of the dict
JsonDumpsKeepOrder(d) == d

RECURSIVE JsonDumpsSortKeys(_)
JsonDumpsSortKeys(d) ==
    IF d = <<>> THEN <<>>
    ELSE InsertByKey(JsonDumpsSortKeys(Tail(d)), Head(d))

\* the digest of a serialization: one number per distinct text, never 0
RECURSIVE Digest(_, _)
Digest(acc, text) ==
    IF text = <<>> THEN acc
    ELSE Digest(acc * 9 + KeyCode[Head(text)[1]] * 3 + Head(text)[2], Tail(text))

Sha256HexDigest(text) == Digest(1, text)

-----------------------------------------------------------------------------
(* The serializer: task_to_dict and workflow_to_dict of the live objects *)

TaskToDict(t) ==
    [parent |-> TaskParent[t], children |-> TaskChildren[t],
     state |-> live_state[t], task_spec |-> TaskSpecName[t],
     data |-> LiveTaskData(t)]

\* "tasks" is a dict: tasks_order is the order in which it is iterated
WorkflowToDict(w, tasks_order) ==
    [tasks |-> IF tasks_order = "parents_first" THEN WorkflowTasks[w]
               ELSE Reverse(WorkflowTasks[w]),
     root |-> WorkflowTasks[w][1],
     last_task |-> last_task[w], success |-> success[w],
     data |-> LiveWorkflowData(w)]

-----------------------------------------------------------------------------
(* Rows *)

NoProperties == [parent |-> "", children |-> <<>>, state |-> 0, task_spec |-> ""]

\* TaskModel(guid=..., bpmn_process_id=..., task_definition_id=...): an object
\* without identity key (persistent FALSE), which bulk_save_objects inserts
CreateTask(bpmn_process_id, t) ==
    [guid |-> t, persistent |-> FALSE, bpmn_process_id |-> bpmn_process_id,
     task_definition |-> [bpmn_identifier |-> TaskSpecName[t],
                          typename |-> TaskTypename[t]],
     state |-> "", properties_json |-> NoProperties,
     json_data_hash |-> 0, python_env_data_hash |-> 0, python_env_data |-> 0,
     start_in_seconds |-> 0, end_in_seconds |-> 0]

\* TaskService.__init__: a fresh service over the current session
NewTaskService(tasks_order, now) ==
    [bp |-> bpmn_process_tbl, pi |-> process_instance_bpmn_process_id,
     bpmn_processes |-> <<>>, task_models |-> <<>>, json_data_dicts |-> <<>>,
     process_instance_events |-> <<>>, constructed |-> {}, updated |-> <<>>,
     tasks_order |-> tasks_order, now |-> now, err |-> "none"]

\* the service after a TaskModel(...) call for t: the call is recorded with
\* what the buffer and the table held for the guid at that moment
Construct(s, t) ==
    [s EXCEPT !.constructed =
        @ \cup {[guid |-> t, buffered |-> t \in DOMAIN s.task_models,
                 stored |-> t \in DOMAIN task_tbl]}]

Raise(s, error) == [s EXCEPT !.err = error]

\* BpmnProcessModel.query.filter_by(guid=guid).first(), 0 when there is none
QueryBpmnProcessByGuid(bp, guid) ==
    IF \E i \in 1..Len(bp) : bp[i].guid = guid
    THEN CHOOSE i \in 1..Len(bp) :
            /\ bp[i].guid = guid
            /\ \A j \in 1..Len(bp) : bp[j].guid = guid => i <= j
    ELSE 0

\* BpmnProcessModel.query.filter_by(top_level_process_id=, guid=).first()
QueryBpmnProcessByTopLevelAndGuid(bp, top_level_process_id, guid) ==
    IF \E i \in 1..Len(bp) :
          bp[i].guid = guid /\ bp[i].top_level_process_id = top_level_process_id
    THEN CHOOSE i \in 1..Len(bp) :
            /\ bp[i].guid = guid /\ bp[i].top_level_process_id = top_level_process_id
            /\ \A j \in 1..Len(bp) :
                  (bp[j].guid = guid /\ bp[j].top_level_process_id = top_level_process_id)
                  => i <= j
    ELSE 0

\* TaskModel.query.filter_by(guid=guid).first(): the session's object of the
\* row, which is the buffered one when the pass has already loaded it.
\* a lookup that never finds the row of a guid
TaskRowNeverExists(t) == FALSE

TaskRowExists(t) == t \in DOMAIN task_tbl
QueryTaskByGuid(s, t) ==
    IF t \in DOMAIN s.task_models THEN s.task_models[t] ELSE task_tbl[t]

-----------------------------------------------------------------------------
(* Hash based change detection *)

UpdateTaskDataOnBpmnProcess(bpmn_process, bpmn_process_data_dict) ==
    LET bpmn_process_data_hash ==
            Sha256HexDigest(JsonDumpsSortKeys(bpmn_process_data_dict))
    IN  IF bpmn_process.json_data_hash # bpmn_process_data_hash
        THEN [bpmn_process |->
                  [bpmn_process EXCEPT !.json_data_hash = bpmn_process_data_hash],
              json_data_dict |->
                  {[hash |-> bpmn_process_data_hash, data |-> bpmn_process_data_dict]}]
        ELSE [bpmn_process |-> bpmn_process, json_data_dict |-> {}]

\* A variant that hands back no dict for an empty payload
UpdateTaskDataOnTaskModelAndReturnDictIfNotEmpty(task_model, task_data_dict, task_model_data_column) ==
    LET task_data_hash == Sha256HexDigest(JsonDumpsSortKeys(task_data_dict))
    IN  IF task_model[task_model_data_column] # task_data_hash
        THEN [task_model |->
                  [task_model EXCEPT ![task_model_data_column] = task_data_hash],
              json_data_dict |->
                  IF task_data_dict = EmptyPayload THEN {}
                  ELSE {[hash |-> task_data_hash, data |-> task_data_dict]}]
        ELSE [task_model |-> task_model, json_data_dict |-> {}]

UpdateTaskDataOnTaskModelAndReturnDictIfUpdated(task_model, task_data_dict, task_model_data_column) ==
    LET task_data_hash == Sha256HexDigest(JsonDumpsSortKeys(task_data_dict))
    IN  IF task_model[task_model_data_column] # task_data_hash
        THEN [task_model |->
                  [task_model EXCEPT ![task_model_data_column] = task_data_hash],
              json_data_dict |->
                  {[hash |-> task_data_hash, data |-> task_data_dict]}]
        ELSE [task_model |-> task_model, json_data_dict |-> {}]

\* self.json_data_dicts[d["hash"]] = d, when d is not None
BufferJsonData(json_data_dicts_, json_data_dict) ==
    IF json_data_dict = {} THEN json_data_dicts_
    ELSE LET d == CHOOSE d \in json_data_dict : TRUE
         IN  Put(json_data_dicts_, d.hash, d.data)

-----------------------------------------------------------------------------
(* The pass: s is the TaskService object together with its session *)

\* spiff_task.workflow.script_engine.environment.user_defined_state(), converted
GetPythonEnvDataDictFromSpiffTask(t) == python_env

\* _task_subprocess: (my_sp_id, my_sp), ("", "") for a top level task
TaskSubprocess(t) ==
    LET my_wf == TaskWorkflow[t]
    IN  IF my_wf # "top" /\ my_wf \in Subprocesses
        THEN [guid |-> SubprocessKey[my_wf], subprocess |-> my_wf]
        ELSE [guid |-> "", subprocess |-> ""]

\* an update that stores the parent of every task as serialized
UpdateTaskModelKeepParent(s, task_model, t) ==
    LET serialized == TaskToDict(t)
        new_properties_json ==
            [parent |-> serialized.parent,
             children |-> serialized.children,
             state |-> serialized.state,
             task_spec |-> serialized.task_spec]
        spiff_task_data == serialized.data
        python_env_data_dict == GetPythonEnvDataDictFromSpiffTask(t)
        tm == [task_model EXCEPT !.properties_json = new_properties_json,
                                 !.state = TaskStateNames[new_properties_json.state]]
        j == UpdateTaskDataOnTaskModelAndReturnDictIfUpdated(
                 tm, spiff_task_data, "json_data_hash")
        e == UpdateTaskDataOnTaskModelAndReturnDictIfUpdated(
                 j.task_model, python_env_data_dict, "python_env_data_hash")
    IN  [s |-> [s EXCEPT !.json_data_dicts =
                    BufferJsonData(BufferJsonData(@, j.json_data_dict), e.json_data_dict)],
         task_model |-> e.task_model]

UpdateTaskModel(s, task_model, t) ==
    LET serialized == TaskToDict(t)
        new_properties_json ==
            [parent |-> IF serialized.task_spec = "Start" THEN "" ELSE serialized.parent,
             children |-> serialized.children,
             state |-> serialized.state,
             task_spec |-> serialized.task_spec]
        spiff_task_data == serialized.data
        python_env_data_dict == GetPythonEnvDataDictFromSpiffTask(t)
        tm == [task_model EXCEPT !.properties_json = new_properties_json,
                                 !.state = TaskStateNames[new_properties_json.state]]
        j == UpdateTaskDataOnTaskModelAndReturnDictIfUpdated(
                 tm, spiff_task_data, "json_data_hash")
        e == UpdateTaskDataOnTaskModelAndReturnDictIfUpdated(
                 j.task_model, python_env_data_dict, "python_env_data_hash")
    IN  [s |-> [s EXCEPT !.json_data_dicts =
                    BufferJsonData(BufferJsonData(@, j.json_data_dict), e.json_data_dict)],
         task_model |-> e.task_model]

RemoveSpiffTaskFromParent(t, task_models_) ==
    LET spiff_task_parent_guid == TaskParent[t]
    IN  IF /\ spiff_task_parent_guid \in DOMAIN task_models_
           /\ InSeq(t, task_models_[spiff_task_parent_guid].properties_json.children)
        THEN [task_models_ EXCEPT ![spiff_task_parent_guid].properties_json.children =
                                      RemoveFirst(@, t)]
        ELSE task_models_

RECURSIVE AddTasksToBpmnProcess(_, _, _, _)
AddTasksToBpmnProcess(s, tasks, spiff_workflow, bpmn_process) ==
    IF tasks = <<>> THEN s
    ELSE
      LET task_id == Head(tasks)
      IN  IF TaskToDict(task_id).task_spec = "Root"
          THEN AddTasksToBpmnProcess(s, Tail(tasks), spiff_workflow, bpmn_process)
          ELSE IF HasPredictedState(live_state[task_id])
          THEN AddTasksToBpmnProcess(
                   [s EXCEPT !.task_models = RemoveSpiffTaskFromParent(task_id, @)],
                   Tail(tasks), spiff_workflow, bpmn_process)
          ELSE
            LET task_model == IF TaskRowExists(task_id)
                              THEN QueryTaskByGuid(s, task_id)
                              ELSE CreateTask(bpmn_process, task_id)
                u == UpdateTaskModel(IF TaskRowExists(task_id) THEN s
                                     ELSE Construct(s, task_id),
                                     task_model, task_id)
            IN  AddTasksToBpmnProcess(
                    [u.s EXCEPT !.task_models = Put(@, task_id, u.task_model)],
                    Tail(tasks), spiff_workflow, bpmn_process)

\* the Start task of a task map ("" when it has none)
StartTaskOf(tasks) ==
    IF \E i \in 1..Len(tasks) : TaskToDict(tasks[i]).task_spec = "Start"
    THEN tasks[CHOOSE i \in 1..Len(tasks) :
                  /\ TaskToDict(tasks[i]).task_spec = "Start"
                  /\ \A j \in 1..Len(tasks) :
                        TaskToDict(tasks[j]).task_spec = "Start" => j <= i]
    ELSE ""

\* variant: the new row is made its own direct parent
DirectBpmnProcessParentItself(s, spiff_workflow, top_level_process) ==
    Len(s.bp) + 1

\* the loop of add_bpmn_process over subprocesses: the row of the sub workflow
\* that is spiff_workflow.outer_workflow, top_level_process when none is
DirectBpmnProcessParent(s, spiff_workflow, top_level_process) ==
    IF OuterWorkflow[spiff_workflow] \in Subprocesses
    THEN QueryBpmnProcessByGuid(s.bp, SubprocessKey[OuterWorkflow[spiff_workflow]])
    ELSE top_level_process

\* variant: top_level_process_id is set to the direct parent
LinkTopLevelProcessToParent(bpmn_process, top_level_process) ==
    IF top_level_process # 0 /\ bpmn_process.top_level_process_id = 0
    THEN [bpmn_process EXCEPT !.top_level_process_id =
                                  bpmn_process.direct_parent_process_id]
    ELSE bpmn_process

\* elif bpmn_process.top_level_process_id is None:
\*     bpmn_process.top_level_process_id = top_level_process.id
LinkTopLevelProcess(bpmn_process, top_level_process) ==
    IF top_level_process # 0 /\ bpmn_process.top_level_process_id = 0
    THEN [bpmn_process EXCEPT !.top_level_process_id = top_level_process]
    ELSE bpmn_process

AddBpmnProcess(s, bpmn_process_dict, spiff_workflow, top_level_process, bpmn_process_guid) ==
    LET tasks == bpmn_process_dict.tasks
        bpmn_process_data_dict == bpmn_process_dict.data
        found == IF top_level_process # 0
                 THEN QueryBpmnProcessByTopLevelAndGuid(
                          s.bp, top_level_process, bpmn_process_guid)
                 ELSE s.pi
        bpmn_process_is_new == found = 0
        id == IF bpmn_process_is_new THEN Len(s.bp) + 1 ELSE found
        direct_bpmn_process_parent ==
            DirectBpmnProcessParent(s, spiff_workflow, top_level_process)
        created ==
            [id |-> id, guid |-> bpmn_process_guid, top_level_process_id |-> 0,
             direct_parent_process_id |->
                 IF top_level_process # 0 THEN direct_bpmn_process_parent ELSE 0,
             bpmn_process_definition |-> spiff_workflow,
             properties_json |-> [root |-> "", last_task |-> "", success |-> FALSE],
             json_data_hash |-> 0]
        bpmn_process == IF bpmn_process_is_new THEN created ELSE s.bp[found]
        root == IF StartTaskOf(tasks) # "" THEN StartTaskOf(tasks)
                ELSE bpmn_process_dict.root
        with_properties ==
            [bpmn_process EXCEPT !.properties_json =
                [root |-> root, last_task |-> bpmn_process_dict.last_task,
                 success |-> bpmn_process_dict.success]]
        hashed == UpdateTaskDataOnBpmnProcess(with_properties, bpmn_process_data_dict)
        linked == LinkTopLevelProcess(hashed.bpmn_process, top_level_process)
        added ==
            [s EXCEPT !.bp = IF bpmn_process_is_new THEN Append(@, linked)
                             ELSE [@ EXCEPT ![found] = linked],
                      !.pi = IF top_level_process = 0 THEN id ELSE @,
                      !.json_data_dicts = BufferJsonData(@, hashed.json_data_dict)]
    IN  IF bpmn_process_is_new /\ top_level_process # 0 /\ direct_bpmn_process_parent = 0
        THEN [s |-> Raise(s, "BpmnProcessNotFoundError"), bpmn_process |-> 0]
        ELSE [s |-> IF bpmn_process_is_new
                    THEN AddTasksToBpmnProcess(added, tasks, spiff_workflow, id)
                    ELSE added,
              bpmn_process |-> id]

TaskBpmnProcess(s, t) ==
    LET sub == TaskSubprocess(t)
    IN  IF sub.subprocess = ""
        THEN IF s.pi = 0
             THEN AddBpmnProcess(s, WorkflowToDict("top", s.tasks_order), "top", 0, "")
             ELSE [s |-> s, bpmn_process |-> s.pi]
        ELSE LET bpmn_process == QueryBpmnProcessByGuid(s.bp, sub.guid)
             IN  IF bpmn_process = 0
                 THEN AddBpmnProcess(s, WorkflowToDict(sub.subprocess, s.tasks_order),
                                     TaskWorkflow[t], s.pi, sub.guid)
                 ELSE [s |-> s, bpmn_process |-> bpmn_process]

\* a TaskModel constructed with the id of the top level process
NewTaskModelInTopLevel(r, t) ==
    [s |-> Construct(r.s, t), bpmn_process |-> r.bpmn_process,
     task_model |-> CreateTask(r.s.pi, t)]

\* the TaskModel constructed for t once task_bpmn_process has returned r
NewTaskModel(r, t) ==
    [s |-> Construct(r.s, t), bpmn_process |-> r.bpmn_process,
     task_model |-> CreateTask(r.bpmn_process, t)]

FindOrCreateTaskModelFromSpiffTask(s, t) ==
    IF TaskRowExists(t)
    THEN [s |-> s, bpmn_process |-> 0, task_model |-> QueryTaskByGuid(s, t)]
    ELSE NewTaskModel(TaskBpmnProcess(s, t), t)

\* variant: a missing direct parent ends the recursion instead of raising
RECURSIVE UpdateBpmnProcessLenient(_, _, _)
UpdateBpmnProcessLenient(s, spiff_workflow, bpmn_process) ==
    IF bpmn_process = 0 THEN s
    ELSE
      LET row == s.bp[bpmn_process]
          new_properties_json ==
              [row.properties_json EXCEPT !.last_task = last_task[spiff_workflow],
                                          !.success = success[spiff_workflow]]
          hashed == UpdateTaskDataOnBpmnProcess(
                        [row EXCEPT !.properties_json = new_properties_json],
                        LiveWorkflowData(spiff_workflow))
          key == IF row.guid # "" THEN row.guid ELSE "top_level"
          updated ==
              [s EXCEPT !.bp[bpmn_process] = hashed.bpmn_process,
                        !.json_data_dicts = BufferJsonData(@, hashed.json_data_dict),
                        !.bpmn_processes = Put(@, key, bpmn_process)]
      IN  IF OuterWorkflow[spiff_workflow] # spiff_workflow
          THEN UpdateBpmnProcessLenient(updated, OuterWorkflow[spiff_workflow],
                                        row.direct_parent_process_id)
          ELSE updated

\* variant: only the process of the task is refreshed, no recursion outward
UpdateBpmnProcessOnly(s, spiff_workflow, bpmn_process) ==
    IF bpmn_process = 0 THEN Raise(s, "AttributeError")
    ELSE
      LET row == s.bp[bpmn_process]
          new_properties_json ==
              [row.properties_json EXCEPT !.last_task = last_task[spiff_workflow],
                                          !.success = success[spiff_workflow]]
          hashed == UpdateTaskDataOnBpmnProcess(
                        [row EXCEPT !.properties_json = new_properties_json],
                        LiveWorkflowData(spiff_workflow))
          key == IF row.guid # "" THEN row.guid ELSE "top_level"
      IN  [s EXCEPT !.bp[bpmn_process] = hashed.bpmn_process,
                    !.json_data_dicts = BufferJsonData(@, hashed.json_data_dict),
                    !.bpmn_processes = Put(@, key, bpmn_process)]

RECURSIVE UpdateBpmnProcess(_, _, _)
UpdateBpmnProcess(s, spiff_workflow, bpmn_process) ==
    IF bpmn_process = 0 THEN Raise(s, "AttributeError")
    ELSE
      LET row == s.bp[bpmn_process]
          new_properties_json ==
              [row.properties_json EXCEPT !.last_task = last_task[spiff_workflow],
                                          !.success = success[spiff_workflow]]
          hashed == UpdateTaskDataOnBpmnProcess(
                        [row EXCEPT !.properties_json = new_properties_json],
                        LiveWorkflowData(spiff_workflow))
          key == IF row.guid # "" THEN row.guid ELSE "top_level"
          updated ==
              [s EXCEPT !.bp[bpmn_process] = hashed.bpmn_process,
                        !.json_data_dicts = BufferJsonData(@, hashed.json_data_dict),
                        !.bpmn_processes = Put(@, key, bpmn_process)]
      IN  IF OuterWorkflow[spiff_workflow] # spiff_workflow
          THEN UpdateBpmnProcess(updated, OuterWorkflow[spiff_workflow],
                                 row.direct_parent_process_id)
          ELSE updated

\* start_and_end_times: None, or the two explicit times
NoTimes == [given |-> FALSE, start_in_seconds |-> 0, end_in_seconds |-> 0]

\* update_task_model_with_spiff_task from the assignment of
\* self.task_models[task_model.guid] on: u is the service and the task model
\* that update_task_model has left. The call is recorded with its task, the
\* state the task model got and the start_and_end_times given.
BufferTaskModel(u, bpmn_process, t, start_and_end_times) ==
    LET hashed == UpdateTaskDataOnBpmnProcess(u.s.bp[bpmn_process],
                                              LiveWorkflowData(TaskWorkflow[t]))
        task_model ==
            IF start_and_end_times.given
            THEN [u.task_model EXCEPT
                     !.start_in_seconds = start_and_end_times.start_in_seconds,
                     !.end_in_seconds = start_and_end_times.end_in_seconds]
            ELSE u.task_model
        timestamp == IF task_model.end_in_seconds # 0 THEN task_model.end_in_seconds
                     ELSE IF task_model.start_in_seconds # 0
                     THEN task_model.start_in_seconds
                     ELSE u.s.now
    IN  [u.s EXCEPT
            !.updated = Append(@, [guid |-> task_model.guid,
                                   state |-> task_model.state,
                                   times |-> start_and_end_times]),
            !.bp[bpmn_process] = hashed.bpmn_process,
            !.json_data_dicts = BufferJsonData(@, hashed.json_data_dict),
            !.task_models = Put(@, task_model.guid, task_model),
            !.process_instance_events =
                IF task_model.state = "COMPLETED"
                THEN Put(@, task_model.guid,
                         [task_guid |-> task_model.guid,
                          event_type |-> "task_completed",
                          timestamp |-> timestamp])
                ELSE @]

\* update_task_model_with_spiff_task once the task model and its process are
\* resolved
UpdateResolvedTaskModel(s, task_model, bpmn_process, t, start_and_end_times) ==
    IF bpmn_process = 0 THEN Raise(s, "AttributeError")
    ELSE UpdateBpmnProcess(
             BufferTaskModel(UpdateTaskModel(s, task_model, t), bpmn_process, t,
                             start_and_end_times),
             TaskWorkflow[t], bpmn_process)

\* bpmn_process = new_bpmn_process or task_model.bpmn_process or the row with
\* id task_model.bpmn_process_id
UpdateFoundTaskModel(f, t, start_and_end_times) ==
    IF f.s.err # "none" THEN f.s
    ELSE UpdateResolvedTaskModel(
             f.s, f.task_model,
             IF f.bpmn_process # 0 THEN f.bpmn_process
             ELSE f.task_model.bpmn_process_id,
             t, start_and_end_times)

UpdateTaskModelWithSpiffTask(s, t, start_and_end_times) ==
    IF s.err # "none" THEN s
    ELSE UpdateFoundTaskModel(
             IF t \in DOMAIN s.task_models
             THEN [s |-> s, bpmn_process |-> 0, task_model |-> s.task_models[t]]
             ELSE FindOrCreateTaskModelFromSpiffTask(s, t),
             t, start_and_end_times)

RECURSIVE ProcessSpiffTaskChildren(_, _)
RECURSIVE ProcessChildren(_, _)
\* variant: the loop without the test of the predicted mask
RECURSIVE ProcessChildrenAll(_, _)
ProcessChildrenAll(s, children) ==
    IF children = <<>> \/ s.err # "none" THEN s
    ELSE
      LET child_spiff_task == Head(children)
      IN  ProcessChildrenAll(
              ProcessSpiffTaskChildren(
                  UpdateTaskModelWithSpiffTask(s, child_spiff_task, NoTimes),
                  child_spiff_task),
              Tail(children))

\* the loop of process_spiff_task_children over spiff_task.children
ProcessChildren(s, children) ==
    IF children = <<>> \/ s.err # "none" THEN s
    ELSE
      LET child_spiff_task == Head(children)
      IN  IF HasPredictedState(live_state[child_spiff_task])
          THEN ProcessChildren(
                   [s EXCEPT !.task_models =
                                 RemoveSpiffTaskFromParent(child_spiff_task, @)],
                   Tail(children))
          ELSE ProcessChildren(
                   ProcessSpiffTaskChildren(
                       UpdateTaskModelWithSpiffTask(s, child_spiff_task, NoTimes),
                       child_spiff_task),
                   Tail(children))

ProcessSpiffTaskChildren(s, t) == ProcessChildren(s, TaskChildren[t])

\* an ascent of one level: the enclosing sub process task and its children
ProcessSpiffTaskParentSubprocessTasksOnce(s, t) ==
    IF s.err # "none" \/ TaskSubprocess(t).guid = "" THEN s
    ELSE ProcessSpiffTaskChildren(
             UpdateTaskModelWithSpiffTask(s, TaskSubprocess(t).guid, NoTimes),
             TaskSubprocess(t).guid)

RECURSIVE ProcessSpiffTaskParentSubprocessTasks(_, _)
ProcessSpiffTaskParentSubprocessTasks(s, t) ==
    LET parent_subprocess_guid == TaskSubprocess(t).guid
    IN  IF s.err # "none" \/ parent_subprocess_guid = "" THEN s
        ELSE ProcessSpiffTaskParentSubprocessTasks(
                 ProcessSpiffTaskChildren(
                     UpdateTaskModelWithSpiffTask(s, parent_subprocess_guid, NoTimes),
                     parent_subprocess_guid),
                 parent_subprocess_guid)

-----------------------------------------------------------------------------
(* Flush *)

\* variant: a plain INSERT, the duplicate key raises
UpsertJsonDataRowPlainInsert(tbl, row, db_type) ==
    LET same == {r \in tbl : r.hash = row.hash}
    IN  IF same = {} THEN [tbl |-> tbl \cup {row}, raised |-> FALSE]
        ELSE [tbl |-> tbl, raised |-> TRUE]

\* one row of INSERT ... ON DUPLICATE KEY UPDATE data = VALUES(data) (mysql)
\* or INSERT ... ON CONFLICT (hash) DO NOTHING (postgres); hash is the key
UpsertJsonDataRow(tbl, row, db_type) ==
    LET same == {r \in tbl : r.hash = row.hash}
    IN  IF same = {} THEN [tbl |-> tbl \cup {row}, raised |-> FALSE]
        ELSE IF db_type = "mysql"
        THEN [tbl |-> (tbl \ same) \cup {row}, raised |-> FALSE]
        ELSE [tbl |-> tbl, raised |-> FALSE]

\* [*json_data_hash_to_json_data_dict_mapping.values()]
RECURSIVE ListOfDicts(_)
ListOfDicts(mapping) ==
    IF DOMAIN mapping = {} THEN <<>>
    ELSE LET h == CHOOSE h \in DOMAIN mapping : \A g \in DOMAIN mapping : h <= g
         IN  <<[hash |-> h, data |-> mapping[h]]>>
             \o ListOfDicts([g \in (DOMAIN mapping) \ {h} |-> mapping[g]])

RECURSIVE ExecuteInsert(_, _, _)
ExecuteInsert(tbl, list_of_dicts, db_type) ==
    IF list_of_dicts = <<>> THEN [tbl |-> tbl, raised |-> FALSE]
    ELSE LET r == UpsertJsonDataRow(tbl, Head(list_of_dicts), db_type)
         IN  IF r.raised THEN r
             ELSE ExecuteInsert(r.tbl, Tail(list_of_dicts), db_type)

InsertOrUpdateJsonDataRecords(tbl, mapping, db_type) ==
    ExecuteInsert(tbl, ListOfDicts(mapping), db_type)

\* a save that keeps only the rows of the buffered task models
BulkSaveTaskModelsOnlyBuffered(tbl, task_models_) ==
    [g \in DOMAIN task_models_ |-> [task_models_[g] EXCEPT !.persistent = TRUE]]

\* a save that inserts the new rows and leaves the stored ones as they are
BulkSaveTaskModelsInsertOnly(tbl, task_models_) ==
    [g \in (DOMAIN tbl) \cup (DOMAIN task_models_) |->
        IF g \in DOMAIN tbl THEN tbl[g]
        ELSE [task_models_[g] EXCEPT !.persistent = TRUE]]

\* bulk_save_objects(self.task_models.values())
\* an object loaded from the table is an UPDATE of its row, a constructed one
\* an INSERT; a row inserted for a guid that has one is not the first of it
BulkSaveTaskModels(tbl, task_models_) ==
    [g \in (DOMAIN tbl) \cup (DOMAIN task_models_) |->
        IF g \in DOMAIN task_models_
           /\ (task_models_[g].persistent \/ g \notin DOMAIN tbl)
        THEN [task_models_[g] EXCEPT !.persistent = TRUE]
        ELSE tbl[g]]

\* the number of rows per guid after bulk_save_objects(self.task_models.values())
BulkSaveTaskRowCount(row_count, task_models_) ==
    [g \in (DOMAIN row_count) \cup (DOMAIN task_models_) |->
        (IF g \in DOMAIN row_count THEN row_count[g] ELSE 0)
        + (IF g \in DOMAIN task_models_ /\ ~task_models_[g].persistent
           THEN 1 ELSE 0)]

\* variant: an event equal to a stored one is not inserted again
BulkSaveEventsAsSet(tbl, events) ==
    SetToBag(BagToSet(tbl) \cup {events[g] : g \in DOMAIN events})

\* bulk_save_objects(self.process_instance_events.values())
BulkSaveEvents(tbl, events) ==
    tbl (+) SetToBag({events[g] : g \in DOMAIN events})

\* time.time()
WallClock == 10 + passes

\* process_parents_and_children_and_save_to_database without the save
ProcessParentsAndChildren(s, t) ==
    ProcessSpiffTaskParentSubprocessTasks(ProcessSpiffTaskChildren(s, t), t)

\* The end of a pass: save_objects_to_database and the caller's commit, or the
\* rollback of the session when the pass raised.
EndPass(s, what) ==
    LET flushed == InsertOrUpdateJsonDataRecords(
                       json_data_tbl, s.json_data_dicts, database_type)
        err == IF s.err # "none" THEN s.err
               ELSE IF flushed.raised THEN "IntegrityError" ELSE "none"
    IN  /\ bpmn_processes' = s.bpmn_processes
        /\ task_models' = s.task_models
        /\ json_data_dicts' = s.json_data_dicts
        /\ process_instance_events' = s.process_instance_events
        /\ task_models_constructed' = s.constructed
        /\ task_models_updated' = s.updated
        /\ passes' = passes + 1
        /\ last_op' = [what EXCEPT !.err = err]
        /\ IF err = "none"
           THEN /\ bpmn_process_tbl' = s.bp
                /\ process_instance_bpmn_process_id' = s.pi
                /\ task_tbl' = BulkSaveTaskModels(task_tbl, s.task_models)
                /\ task_row_count' =
                       BulkSaveTaskRowCount(task_row_count, s.task_models)
                /\ process_instance_event_tbl' =
                       BulkSaveEvents(process_instance_event_tbl,
                                      s.process_instance_events)
                /\ json_data_tbl' = flushed.tbl
           ELSE UNCHANGED store_vars
        /\ UNCHANGED <<live_vars, database_type, flush_vars>>

TasksOrders == {"parents_first", "children_first"}
StartAndEndTimes ==
    {NoTimes,
     [given |-> TRUE, start_in_seconds |-> 1, end_in_seconds |-> 2],
     [given |-> TRUE, start_in_seconds |-> 1, end_in_seconds |-> 0]}

\* the tasks a caller passes: live tasks the engine has reached
EntryTasks ==
    {t \in Tasks : /\ TaskExists(t)
                   /\ TaskSpecName[t] # "Root"
                   /\ ~HasPredictedState(live_state[t])}

\* the arguments of a reset_task_model call (hashes 0 = not given)
NoReset == [state |-> "", json_data_hash |-> 0, python_env_data_hash |-> 0]

NoOp == [op |-> "none", task |-> "", times |-> NoTimes, reset |-> NoReset,
         err |-> "none"]

\* no pass is in flight
NoPass == [pc |-> "idle", s |-> NewTaskService("parents_first", 0), task |-> ""]

\* the caller drops the TaskService of a pass before the engine runs again
DropTaskService ==
    /\ bpmn_processes' = <<>>
    /\ task_models' = <<>>
    /\ json_data_dicts' = <<>>
    /\ process_instance_events' = <<>>
    /\ task_models_constructed' = {}
    /\ task_models_updated' = <<>>
    /\ last_op' = NoOp

\* process_parents_and_children_and_save_to_database(spiff_task) on a fresh
\* TaskService
Reconcile(t, tasks_order) ==
    /\ passes < MaxPasses
    /\ t \in EntryTasks
    /\ EndPass(ProcessParentsAndChildren(NewTaskService(tasks_order, WallClock), t),
               [NoOp EXCEPT !.op = "reconcile", !.task = t])
    /\ UNCHANGED running

\* the Start tasks of the workflows that enclose w, outermost first: tasks a
\* run has completed before it reaches a task of w
RECURSIVE StartsAbove(_)
StartsAbove(w) ==
    IF OuterWorkflow[w] = w THEN <<>>
    ELSE StartsAbove(OuterWorkflow[w]) \o <<StartTaskOf(WorkflowTasks[OuterWorkflow[w]])>>

RECURSIVE UpdateEach(_, _)
UpdateEach(s, updated) ==
    IF updated = <<>> THEN s
    ELSE UpdateEach(UpdateTaskModelWithSpiffTask(s, Head(updated), NoTimes),
                    Tail(updated))

\* update_task_model_with_spiff_task for the tasks a run has completed, the
\* last one t with its start_and_end_times, and then
\* process_parents_and_children_and_save_to_database(t), on one fresh
\* TaskService: what a caller does after it has run the engine
UpdateAndReconcile(t, start_and_end_times, tasks_order) ==
    /\ passes < MaxPasses
    /\ t \in EntryTasks
    /\ live_state[t] = TaskState.COMPLETED
    /\ EndPass(ProcessParentsAndChildren(
                   UpdateTaskModelWithSpiffTask(
                       UpdateEach(NewTaskService(tasks_order, WallClock),
                                  StartsAbove(TaskWorkflow[t])),
                       t, start_and_end_times),
                   t),
               [NoOp EXCEPT !.op = "update_and_reconcile", !.task = t,
                            !.times = start_and_end_times])
    /\ UNCHANGED running

-----------------------------------------------------------------------------
(* reset_task_model *)

\* A variant that leaves the state of the snapshot as it was
ResetTaskModelRowKeepSnapshot(task_model, state, json_data_hash, python_env_data_hash) ==
    LET j == IF json_data_hash = 0
             THEN UpdateTaskDataOnTaskModelAndReturnDictIfUpdated(
                      task_model, EmptyPayload, "json_data_hash").task_model
             ELSE [task_model EXCEPT !.json_data_hash = json_data_hash]
        e == IF python_env_data_hash = 0
             THEN UpdateTaskDataOnTaskModelAndReturnDictIfUpdated(
                      j, EmptyPayload, "python_env_data").task_model
             ELSE [j EXCEPT !.python_env_data_hash = python_env_data_hash]
    IN  [e EXCEPT !.state = state,
                  !.start_in_seconds = 0,
                  !.end_in_seconds = 0]

\* getattr(TaskState, state)
ResetTaskModelRow(task_model, state, json_data_hash, python_env_data_hash) ==
    LET j == IF json_data_hash = 0
             THEN UpdateTaskDataOnTaskModelAndReturnDictIfUpdated(
                      task_model, EmptyPayload, "json_data_hash").task_model
             ELSE [task_model EXCEPT !.json_data_hash = json_data_hash]
        e == IF python_env_data_hash = 0
             THEN UpdateTaskDataOnTaskModelAndReturnDictIfUpdated(
                      j, EmptyPayload, "python_env_data").task_model
             ELSE [j EXCEPT !.python_env_data_hash = python_env_data_hash]
    IN  [e EXCEPT !.state = state,
                  !.start_in_seconds = 0,
                  !.end_in_seconds = 0,
                  !.properties_json.state = TaskState[state]]

ResetStates == {"READY"}
\* None, or a hash the caller read from a stored row
ResetHashes == {0, Sha256HexDigest(JsonDumpsSortKeys(TaskPayload["a"]))}

\* reset_task_model on a stored task, saved by the caller
ResetTaskModel(t, state, json_data_hash, python_env_data_hash) ==
    /\ passes < MaxPasses
    /\ t \in DOMAIN task_tbl
    /\ \A h \in {json_data_hash, python_env_data_hash} :
           h = 0 \/ \E r \in json_data_tbl : r.hash = h
    /\ task_tbl' = [task_tbl EXCEPT ![t] =
           ResetTaskModelRow(@, state, json_data_hash, python_env_data_hash)]
    /\ passes' = passes + 1
    /\ bpmn_processes' = <<>>
    /\ task_models' = <<>>
    /\ json_data_dicts' = <<>>
    /\ process_instance_events' = <<>>
    /\ task_models_constructed' = {}
    /\ task_models_updated' = <<>>
    /\ last_op' = [NoOp EXCEPT
                       !.op = "reset", !.task = t,
                       !.reset = [state |-> state, json_data_hash |-> json_data_hash,
                                  python_env_data_hash |-> python_env_data_hash]]
    /\ UNCHANGED <<bpmn_process_tbl, task_row_count, process_instance_event_tbl,
                   json_data_tbl, process_instance_bpmn_process_id, live_vars,
                   database_type, flush_vars, running>>

-----------------------------------------------------------------------------
(* The engine *)

\* a boundary task completes after the workflow it invoked
SubWorkflowDone(t) ==
    /\ t = "b1" => live_state["b2"] = TaskState.COMPLETED
    /\ t = "b2" => live_state["c"] = TaskState.COMPLETED

CompleteTask(t) ==
    /\ success["top"]
    /\ TaskExists(t)
    /\ live_state[t] = TaskState.READY
    /\ SubWorkflowDone(t)
    /\ live_state' = [live_state EXCEPT ![t] = TaskState.COMPLETED]
    /\ last_task' = [last_task EXCEPT ![TaskWorkflow[t]] = t]
    /\ python_env' = TaskPayload[t]
    /\ DropTaskService
    /\ UNCHANGED <<success, store_vars, database_type, passes, flush_vars,
                   running>>

\* a predicted task becomes READY once its parent has completed; y and z are
\* a branch the engine predicts and never takes
ActivateTask(t) ==
    /\ success["top"]
    /\ TaskExists(t)
    /\ t \notin {"y", "z"}
    /\ HasPredictedState(live_state[t])
    /\ live_state[TaskParent[t]] = TaskState.COMPLETED
    /\ live_state' = [u \in Tasks |->
           IF u = t THEN TaskState.READY
           ELSE IF t = "b1" /\ TaskWorkflow[u] # "top" THEN CreatedState[u]
           ELSE live_state[u]]
    /\ DropTaskService
    /\ UNCHANGED <<last_task, success, python_env, store_vars, database_type,
                   passes, flush_vars, running>>

\* workflow.cancel() of the top level: every unfinished task is cancelled
CancelWorkflow ==
    /\ success["top"]
    /\ success' = [success EXCEPT !["top"] = FALSE]
    /\ live_state' = [t \in Tasks |->
           IF TaskExists(t) /\ live_state[t] # TaskState.COMPLETED
           THEN TaskState.CANCELLED ELSE live_state[t]]
    /\ DropTaskService
    /\ UNCHANGED <<last_task, python_env, store_vars, database_type,
                   passes, flush_vars, running>>

-----------------------------------------------------------------------------
(* Specification *)

DatabaseTypes == {"mysql", "postgres"}
Sessions == {1, 2}

Init ==
    /\ live_state = InitialLiveState
    /\ last_task = [w \in Workflows |-> IF w = "top" THEN "s0" ELSE ""]
    /\ success = [w \in Workflows |-> TRUE]
    /\ python_env = EmptyPayload
    /\ bpmn_process_tbl = <<>>
    /\ task_tbl = <<>>
    /\ task_row_count = <<>>
    /\ process_instance_event_tbl = EmptyBag
    /\ json_data_tbl = {}
    /\ process_instance_bpmn_process_id = 0
    /\ database_type \in DatabaseTypes
    /\ bpmn_processes = <<>>
    /\ task_models = <<>>
    /\ json_data_dicts = <<>>
    /\ process_instance_events = <<>>
    /\ task_models_constructed = {}
    /\ task_models_updated = <<>>
    /\ last_op = NoOp
    /\ passes = 0
    /\ flush_rows = [p \in Sessions |-> [list_of_dicts |-> <<>>, done |-> 0]]
    /\ flush_error = [p \in Sessions |-> FALSE]
    /\ running = NoPass

Next ==
    \/ \E t \in Tasks : CompleteTask(t)
    \/ \E t \in Tasks : ActivateTask(t)
    \/ CancelWorkflow
    \/ \E t \in Tasks, o \in TasksOrders : Reconcile(t, o)
    \/ \E t \in Tasks, times \in StartAndEndTimes, o \in TasksOrders :
          UpdateAndReconcile(t, times, o)
    \/ \E t \in Tasks, state \in ResetStates, h \in ResetHashes :
          ResetTaskModel(t, state, h, h)

Spec == Init /\ [][Next]_vars

-----------------------------------------------------------------------------
(* Two sessions executing insert_or_update_json_data_records on one table *)

Payloads == {EmptyPayload} \cup {TaskPayload[t] : t \in Tasks}

DataHash(d) == Sha256HexDigest(JsonDumpsSortKeys(d))

\* the json_data_dicts a pass can hold: one data dict per hash
JsonDataMappings ==
    {[h \in {DataHash(d) : d \in ds} |-> CHOOSE d \in ds : DataHash(d) = h] :
        ds \in {x \in SUBSET Payloads :
                   \A d \in x, e \in x : DataHash(d) = DataHash(e) => d = e}}

InitFlush ==
    /\ live_state = InitialLiveState
    /\ last_task = [w \in Workflows |-> IF w = "top" THEN "s0" ELSE ""]
    /\ success = [w \in Workflows |-> TRUE]
    /\ python_env = EmptyPayload
    /\ bpmn_process_tbl = <<>>
    /\ task_tbl = <<>>
    /\ task_row_count = <<>>
    /\ process_instance_event_tbl = EmptyBag
    /\ json_data_tbl = {}
    /\ process_instance_bpmn_process_id = 0
    /\ database_type \in DatabaseTypes
    /\ bpmn_processes = <<>>
    /\ task_models = <<>>
    /\ json_data_dicts = <<>>
    /\ process_instance_events = <<>>
    /\ task_models_constructed = {}
    /\ task_models_updated = <<>>
    /\ last_op = NoOp
    /\ passes = 0
    /\ flush_rows \in [Sessions -> {[list_of_dicts |-> ListOfDicts(m), done |-> 0] :
                                        m \in JsonDataMappings}]
    /\ flush_error = [p \in Sessions |-> FALSE]
    /\ running = NoPass

\* the statement of session p inserts its next row
InsertRow(p) ==
    /\ ~flush_error[p]
    /\ flush_rows[p].done < Len(flush_rows[p].list_of_dicts)
    /\ LET r == UpsertJsonDataRow(
                    json_data_tbl,
                    flush_rows[p].list_of_dicts[flush_rows[p].done + 1],
                    database_type)
       IN  /\ json_data_tbl' = r.tbl
           /\ flush_error' = [flush_error EXCEPT ![p] = r.raised]
           /\ flush_rows' = [flush_rows EXCEPT ![p].done = @ + 1]
    /\ UNCHANGED <<live_vars, bpmn_process_tbl, task_tbl, task_row_count,
                   process_instance_event_tbl, process_instance_bpmn_process_id,
                   database_type, service_vars, last_op, passes, running>>

NextFlush == \E p \in Sessions : InsertRow(p)

SpecFlush == InitFlush /\ [][NextFlush]_vars

-----------------------------------------------------------------------------
(* Lineage queries over the stored rows. A process row is named by its id, a
   task row by its guid ("" = None). *)

\* the ids of the stored process rows, as a query returns them
AllBpmnProcessIds == [i \in 1..Len(bpmn_process_tbl) |-> i]

\* BpmnProcessModel.query.filter(direct_parent_process_id.in_(ids)).all()
DirectChildren(bpmn_process_ids) ==
    LET IsChild(i) ==
            bpmn_process_tbl[i].direct_parent_process_id \in bpmn_process_ids
    IN  SelectSeq(AllBpmnProcessIds, IsChild)

\* the given rows and their direct children only
BpmnProcessAndChildren(bpmn_processes_) ==
    bpmn_processes_
        \o DirectChildren({bpmn_processes_[k] : k \in 1..Len(bpmn_processes_)})

RECURSIVE BpmnProcessAndDescendants(_)
BpmnProcessAndDescendants(bpmn_processes_) ==
    LET bpmn_process_ids == {bpmn_processes_[k] : k \in 1..Len(bpmn_processes_)}
        direct_children == DirectChildren(bpmn_process_ids)
    IN  IF Len(direct_children) > 0
        THEN bpmn_processes_ \o BpmnProcessAndDescendants(direct_children)
        ELSE bpmn_processes_

\* (b + bpmn_processes, t + task_models) of the recursive call's result
AppendToParents(parents, bpmn_process, parent_task_model) ==
    [parents EXCEPT !.bpmn_processes = @ \o <<bpmn_process>>,
                    !.task_models = @ \o <<parent_task_model>>]

\* a walk that never looks at the type of the boundary task
RECURSIVE TaskModelsOfParentBpmnProcessesToTop(_, _)
TaskModelsOfParentBpmnProcessesToTop(task_model, stop_on_first_call_activity) ==
    LET bpmn_process == task_model.bpmn_process_id
        guid == bpmn_process_tbl[bpmn_process].guid
    IN  IF guid = ""
        THEN [bpmn_processes |-> <<bpmn_process>>, task_models |-> <<>>,
              err |-> "none"]
        ELSE IF ~TaskRowExists(guid)
        THEN [bpmn_processes |-> <<bpmn_process>>, task_models |-> <<"">>,
              err |-> "none"]
        ELSE AppendToParents(
                 TaskModelsOfParentBpmnProcessesToTop(
                     task_tbl[guid], stop_on_first_call_activity),
                 bpmn_process, guid)

\* a walk that puts the enclosing rows behind the enclosed one
RECURSIVE TaskModelsOfParentBpmnProcessesInnermostFirst(_, _)
TaskModelsOfParentBpmnProcessesInnermostFirst(task_model, stop_on_first_call_activity) ==
    LET bpmn_process == task_model.bpmn_process_id
        guid == bpmn_process_tbl[bpmn_process].guid
    IN  IF guid = ""
        THEN [bpmn_processes |-> <<bpmn_process>>, task_models |-> <<>>,
              err |-> "none"]
        ELSE IF ~TaskRowExists(guid)
        THEN [bpmn_processes |-> <<bpmn_process>>, task_models |-> <<"">>,
              err |-> IF stop_on_first_call_activity THEN "AttributeError"
                      ELSE "none"]
        ELSE IF stop_on_first_call_activity
                /\ task_tbl[guid].task_definition.typename = "CallActivity"
        THEN [bpmn_processes |-> <<bpmn_process>>, task_models |-> <<guid>>,
              err |-> "none"]
        ELSE [bpmn_processes |->
                  <<bpmn_process>> \o
                  TaskModelsOfParentBpmnProcessesInnermostFirst(
                      task_tbl[guid], stop_on_first_call_activity).bpmn_processes,
              task_models |->
                  <<guid>> \o
                  TaskModelsOfParentBpmnProcessesInnermostFirst(
                      task_tbl[guid], stop_on_first_call_activity).task_models,
              err |-> "none"]

\* task_models_of_parent_bpmn_processes: the rows from the outermost one the
\* walk reaches down to the row of the task, and the tasks that stand for a
\* row in the row that encloses it. A boundary task that is not stored is
\* appended as None and ends the walk, or raises when its type is asked for.
RECURSIVE TaskModelsOfParentBpmnProcesses(_, _)
TaskModelsOfParentBpmnProcesses(task_model, stop_on_first_call_activity) ==
    LET bpmn_process == task_model.bpmn_process_id
        guid == bpmn_process_tbl[bpmn_process].guid
    IN  IF guid = ""
        THEN [bpmn_processes |-> <<bpmn_process>>, task_models |-> <<>>,
              err |-> "none"]
        ELSE IF ~TaskRowExists(guid)
        THEN [bpmn_processes |-> <<bpmn_process>>, task_models |-> <<"">>,
              err |-> IF stop_on_first_call_activity THEN "AttributeError"
                      ELSE "none"]
        ELSE IF stop_on_first_call_activity
                /\ task_tbl[guid].task_definition.typename = "CallActivity"
        THEN [bpmn_processes |-> <<bpmn_process>>, task_models |-> <<guid>>,
              err |-> "none"]
        ELSE AppendToParents(
                 TaskModelsOfParentBpmnProcesses(
                     task_tbl[guid], stop_on_first_call_activity),
                 bpmn_process, guid)

\* p.bpmn_process_definition.bpmn_identifier of each row
BpmnIdentifiers(bpmn_processes_) ==
    [k \in 1..Len(bpmn_processes_) |->
        bpmn_process_tbl[bpmn_processes_[k]].bpmn_process_definition]

\* a path that leaves out the row asked for
FullBpmnProcessPathOfParents(bpmn_process) ==
    IF bpmn_process_tbl[bpmn_process].guid # ""
    THEN IF ~TaskRowExists(bpmn_process_tbl[bpmn_process].guid)
         THEN [path |-> <<>>, err |-> "AttributeError"]
         ELSE [path |-> BpmnIdentifiers(
                            TaskModelsOfParentBpmnProcesses(
                                task_tbl[bpmn_process_tbl[bpmn_process].guid],
                                FALSE).bpmn_processes),
               err |-> "none"]
    ELSE [path |-> <<>>, err |-> "none"]

\* full_bpmn_process_path
FullBpmnProcessPath(bpmn_process) ==
    IF bpmn_process_tbl[bpmn_process].guid # ""
    THEN IF ~TaskRowExists(bpmn_process_tbl[bpmn_process].guid)
         THEN [path |-> <<>>, err |-> "AttributeError"]
         ELSE [path |-> BpmnIdentifiers(
                            TaskModelsOfParentBpmnProcesses(
                                task_tbl[bpmn_process_tbl[bpmn_process].guid],
                                FALSE).bpmn_processes)
                        \o BpmnIdentifiers(<<bpmn_process>>),
               err |-> "none"]
    ELSE [path |-> BpmnIdentifiers(<<bpmn_process>>), err |-> "none"]

\* bpmn_process_for_called_activity_or_top_level_process
BpmnProcessForCalledActivityOrTopLevelProcess(task_model) ==
    TaskModelsOfParentBpmnProcesses(task_model, TRUE).bpmn_processes[1]

-----------------------------------------------------------------------------
(* A pass taken one call at a time: the three calls of
   process_parents_and_children_and_save_to_database *)

\* a caller constructs the TaskService and enters the pass
StartPass(t, tasks_order) ==
    /\ running.pc = "idle"
    /\ passes < MaxPasses
    /\ t \in EntryTasks
    /\ running' = [pc |-> "process_spiff_task_children",
                   s |-> NewTaskService(tasks_order, WallClock), task |-> t]
    /\ UNCHANGED <<live_vars, store_vars, database_type, service_vars, last_op,
                   passes, flush_vars>>

\* self.process_spiff_task_children(spiff_task)
ChildrenStep ==
    /\ running.pc = "process_spiff_task_children"
    /\ running' = [running EXCEPT
                       !.pc = "process_spiff_task_parent_subprocess_tasks",
                       !.s = ProcessSpiffTaskChildren(running.s, running.task)]
    /\ UNCHANGED <<live_vars, store_vars, database_type, service_vars, last_op,
                   passes, flush_vars>>

\* self.process_spiff_task_parent_subprocess_tasks(spiff_task)
ParentsStep ==
    /\ running.pc = "process_spiff_task_parent_subprocess_tasks"
    /\ running' = [running EXCEPT
                       !.pc = "save_objects_to_database",
                       !.s = ProcessSpiffTaskParentSubprocessTasks(
                                 running.s, running.task)]
    /\ UNCHANGED <<live_vars, store_vars, database_type, service_vars, last_op,
                   passes, flush_vars>>

\* self.save_objects_to_database() and the caller's commit, or the rollback
SaveStep ==
    /\ running.pc = "save_objects_to_database"
    /\ EndPass(running.s, [NoOp EXCEPT !.op = "reconcile", !.task = running.task])
    /\ running' = NoPass

\* the engine runs between the passes, not during one
EngineStep ==
    /\ running.pc = "idle"
    /\ \/ \E t \in Tasks : CompleteTask(t)
       \/ \E t \in Tasks : ActivateTask(t)
       \/ CancelWorkflow

NextSteps ==
    \/ EngineStep
    \/ \E t \in Tasks, o \in TasksOrders : StartPass(t, o)
    \/ ChildrenStep
    \/ ParentsStep
    \/ SaveStep

SpecSteps == Init /\ [][NextSteps]_vars

-----------------------------------------------------------------------------
(* Properties *)

\* the latest operation was a pass that flushed and committed
PassFlushed ==
    /\ last_op.op \in {"reconcile", "update_and_reconcile"}
    /\ last_op.err = "none"

\* a live task in a predicted (MAYBE or LIKELY) state
IsSpeculative(t) == TaskExists(t) /\ HasPredictedState(live_state[t])

TaskRows == DOMAIN task_tbl
ProcessRows == 1..Len(bpmn_process_tbl)
TopNodes == {i \in ProcessRows : bpmn_process_tbl[i].guid = ""}

\* the stored parents that list a speculative live task among their children
StaleParents ==
    {g \in TaskRows :
        \E i \in 1..Len(task_tbl[g].properties_json.children) :
            IsSpeculative(task_tbl[g].properties_json.children[i])}

\* C1: after a pass has flushed, no stored task row lists among its children
\* the guid of a live task that is in a predicted state, whatever the order in
\* which the task map presented parent and child.
PrunedChildrenNeverPersisted == PassFlushed => StaleParents = {}

\* this step is a second reconcile of the entry task of the pass before it,
\* no engine step in between
SecondReconcile ==
    /\ last_op.op = "reconcile" /\ last_op.err = "none"
    /\ last_op'.op = "reconcile" /\ last_op'.err = "none"
    /\ last_op'.task = last_op.task
    /\ passes' = passes + 1

\* C2: a second reconcile of the same entry task, the live tree unchanged,
\* buffers no json data record, changes no field of a stored process or task
\* row and appends no event.
SecondReconcileWritesNothing ==
    [][SecondReconcile =>
          /\ json_data_dicts' = <<>>
          /\ bpmn_process_tbl' = bpmn_process_tbl
          /\ task_tbl' = task_tbl
          /\ process_instance_event_tbl' = process_instance_event_tbl]_vars

\* the rows with guid null that following direct_parent_process_id from row i
\* reaches in at most n steps
RECURSIVE Chain(_, _)
Chain(i, n) ==
    IF i \notin ProcessRows THEN {}
    ELSE IF bpmn_process_tbl[i].guid = "" THEN {i}
    ELSE IF n = 0 THEN {}
    ELSE Chain(bpmn_process_tbl[i].direct_parent_process_id, n - 1)

\* C3: from every stored process row with a guid, following
\* direct_parent_process_id ends, within as many steps as there are rows, at a
\* row with guid null, and that row is the only one with guid null.
ParentChainReachesTopLevel ==
    \A i \in ProcessRows :
        bpmn_process_tbl[i].guid # "" =>
            /\ Chain(i, Len(bpmn_process_tbl)) # {}
            /\ Chain(i, Len(bpmn_process_tbl)) = TopNodes
            /\ Cardinality(TopNodes) = 1

\* a row of a sub workflow of a sub workflow is stored
ParentChainReachesTopLevelWitness ==
    \E i \in ProcessRows :
        /\ bpmn_process_tbl[i].guid # ""
        /\ bpmn_process_tbl[i].direct_parent_process_id \in ProcessRows
        /\ bpmn_process_tbl[bpmn_process_tbl[i].direct_parent_process_id].guid # ""

DirectParentIsEnclosingProcess ==
    \A i \in ProcessRows :
        LET n == bpmn_process_tbl[i]
        IN  n.guid # "" =>
              \E w \in Subprocesses :
                 /\ SubprocessKey[w] = n.guid
                 /\ n.direct_parent_process_id \in ProcessRows
                 /\ bpmn_process_tbl[n.direct_parent_process_id].guid =
                        SubprocessKey[OuterWorkflow[w]]
                 /\ n.top_level_process_id \in TopNodes

\* the row of S2 is stored under the row of S1, which is not the top level
DirectParentIsEnclosingProcessWitness ==
    \E i \in ProcessRows :
        /\ bpmn_process_tbl[i].guid = SubprocessKey["S2"]
        /\ bpmn_process_tbl[i].direct_parent_process_id \in ProcessRows
        /\ bpmn_process_tbl[bpmn_process_tbl[i].direct_parent_process_id].guid =
               SubprocessKey["S1"]
        /\ bpmn_process_tbl[i].top_level_process_id #
               bpmn_process_tbl[i].direct_parent_process_id

RECURSIVE Ancestors(_)
Ancestors(t) ==
    IF TaskParent[t] = "" THEN {}
    ELSE {TaskParent[t]} \cup Ancestors(TaskParent[t])

\* C6: when a pass flushes, every task row in its buffer is the row of a live
\* task that is not predicted and has no predicted ancestor, and no task row,
\* buffered or stored, has the state MAYBE or LIKELY.
NoSpeculativeTaskFlushed ==
    /\ PassFlushed =>
          \A g \in DOMAIN task_models :
             /\ ~IsSpeculative(g)
             /\ task_models[g].state \notin {"MAYBE", "LIKELY"}
             /\ \A a \in Ancestors(g) : ~IsSpeculative(a)
    /\ \A g \in TaskRows : task_tbl[g].state \notin {"MAYBE", "LIKELY"}

\* a pass walked past a predicted child and flushed the parent and a sibling
NoSpeculativeTaskFlushedWitness ==
    /\ PassFlushed
    /\ \E g \in DOMAIN task_models :
          /\ \E c \in DOMAIN task_models : TaskParent[c] = g
          /\ \E c \in Tasks : TaskParent[c] = g /\ IsSpeculative(c)

\* C7: after reset_task_model without hashes the row has the given state, no
\* start and end time, and both json_data_hash and python_env_data_hash are
\* the hash of the empty dict.
ResetClearsBothHashes ==
    (last_op.op = "reset" /\ last_op.reset.json_data_hash = 0
                          /\ last_op.reset.python_env_data_hash = 0) =>
        LET task_model == task_tbl[last_op.task]
        IN  /\ task_model.state = last_op.reset.state
            /\ task_model.start_in_seconds = 0
            /\ task_model.end_in_seconds = 0
            /\ task_model.json_data_hash = DataHash(EmptyPayload)
            /\ task_model.python_env_data_hash = DataHash(EmptyPayload)

RECURSIVE CountEvents(_, _)
CountEvents(tbl, events) ==
    IF events = {} THEN 0
    ELSE LET e == CHOOSE e \in events : TRUE
         IN  CopiesIn(e, tbl) + CountEvents(tbl, events \ {e})

\* the number of stored events of task g
EventsOf(tbl, g) == CountEvents(tbl, {e \in BagToSet(tbl) : e.task_guid = g})

\* the latest pass of the given kind entered at a completed top level task
CompletedTopLevelEntry(op) ==
    /\ last_op.op = op
    /\ last_op.err = "none"
    /\ TaskWorkflow[last_op.task] = "top"
    /\ live_state[last_op.task] = TaskState.COMPLETED

\* what C8 expects of the stores after the pass
EntryTaskStored ==
    /\ last_op.task \in TaskRows
    /\ task_tbl[last_op.task].state = "COMPLETED"
    /\ process_instance_bpmn_process_id \in ProcessRows
    /\ bpmn_process_tbl[process_instance_bpmn_process_id].properties_json.last_task
           = last_task["top"]

RECURSIVE OuterChain(_)
OuterChain(w) ==
    IF OuterWorkflow[w] = w THEN {w} ELSE {w} \cup OuterChain(OuterWorkflow[w])

\* the key of self.bpmn_processes for the row of workflow w
BufferKey(w) == IF w = "top" THEN "top_level" ELSE SubprocessKey[w]

\* C9: when a pass flushes, for every task it buffered the rows of the task's
\* workflow and of every workflow enclosing it, up to the top level, are in the
\* buffer of process rows, each with last_task and success of the live
\* workflow it stands for, and the buffer holds no other key.
ProcessChainRefreshed ==
    PassFlushed =>
        /\ \A g \in DOMAIN task_models :
             \A w \in OuterChain(TaskWorkflow[g]) :
                /\ BufferKey(w) \in DOMAIN bpmn_processes
                /\ bpmn_processes[BufferKey(w)] \in ProcessRows
                /\ LET n == bpmn_process_tbl[bpmn_processes[BufferKey(w)]]
                   IN  /\ n.guid = SubprocessKey[w]
                       /\ n.properties_json.last_task = last_task[w]
                       /\ n.properties_json.success = success[w]
        /\ DOMAIN bpmn_processes \subseteq {BufferKey(w) : w \in Workflows}

\* a pass buffered a task of S2 and with it the three rows of its chain, the
\* live last_task of S2 being one the engine set after creation
ProcessChainRefreshedWitness ==
    /\ PassFlushed
    /\ \E g \in DOMAIN task_models : TaskWorkflow[g] = "S2"
    /\ Cardinality(DOMAIN bpmn_processes) = 3
    /\ last_task["S2"] = "c"

\* the rows session p has inserted so far
Inserted(p) ==
    {flush_rows[p].list_of_dicts[i] : i \in 1..flush_rows[p].done}

\* C10: while two sessions insert their json data rows into one table, in any
\* interleaving and for mysql as for the other backend, no statement raises and
\* for every hash inserted so far the table holds exactly one row.
ConcurrentFlushKeepsOneRecord ==
    /\ \A p \in Sessions : ~flush_error[p]
    /\ \A p \in Sessions :
          \A row \in Inserted(p) :
             Cardinality({r \in json_data_tbl : r.hash = row.hash}) = 1

\* both sessions are done and inserted one hash with the keys in either order
ConcurrentFlushKeepsOneRecordWitness ==
    /\ \A p \in Sessions : flush_rows[p].done = Len(flush_rows[p].list_of_dicts)
    /\ \E r1 \in Inserted(1), r2 \in Inserted(2) :
          r1.hash = r2.hash /\ r1.data # r2.data

\* the latest pass raised before its flush
PassRaised ==
    /\ last_op.op \in {"reconcile", "update_and_reconcile"}
    /\ last_op.err # "none"

\* C11: a pass that cannot resolve the direct parent of the row it has to
\* create for a sub workflow ends with BpmnProcessNotFoundError, and no row
\* of a sub workflow is stored without a direct parent.
UnresolvedParentRaisesNotFound ==
    PassRaised =>
        /\ last_op.err = "BpmnProcessNotFoundError"
        /\ \A i \in ProcessRows :
              bpmn_process_tbl[i].guid # "" =>
                  bpmn_process_tbl[i].direct_parent_process_id \in ProcessRows

\* C12: when a pass flushes, every buffered task model is filed under its own
\* guid and every buffered process row under its own key (no row under two
\* keys), whatever was visited twice; and after any sequence of passes no
\* guid has more than one task row in storage.
OneRepresentativePerIdentity ==
    /\ PassFlushed =>
          /\ \A g \in DOMAIN task_models : task_models[g].guid = g
          /\ \A k1, k2 \in DOMAIN bpmn_processes :
                bpmn_processes[k1] = bpmn_processes[k2] => k1 = k2
    /\ \A g \in DOMAIN task_row_count : task_row_count[g] <= 1

\* a second pass flushed a task whose row the first pass had stored, after
\* a pass had resolved one guid twice
OneRepresentativePerIdentityWitness ==
    /\ PassFlushed
    /\ passes = 2
    /\ \E g \in DOMAIN task_models :
          /\ task_models[g].persistent
          /\ task_row_count[g] = 1
    /\ \E c \in task_models_constructed : c.buffered

\* C13: a pass constructs a new task model for a guid only when, at the
\* moment of the constructor call, the guid is neither a key of the buffer of
\* task models nor the guid of a stored task row.
ConstructedOnlyWhenUnresolved ==
    \A c \in task_models_constructed : ~c.buffered /\ ~c.stored

\* C14: after any sequence of passes every task has at most one stored
\* task_completed event, a pass that visits an already completed task
\* appending none.
AtMostOneCompletedEventPerTask ==
    \A g \in Tasks : EventsOf(process_instance_event_tbl, g) <= 1

\* the task, event and json data tables
WrittenTables ==
    <<task_tbl, task_row_count, process_instance_event_tbl, json_data_tbl>>

\* every object the latest pass buffered is in its table
AllBuffersStored ==
    /\ \A g \in DOMAIN task_models :
          /\ g \in TaskRows
          /\ task_tbl[g] = [task_models[g] EXCEPT !.persistent = TRUE]
    /\ \A g \in DOMAIN process_instance_events :
          CopiesIn(process_instance_events[g], process_instance_event_tbl) >= 1
    /\ \A h \in DOMAIN json_data_dicts :
          \E r \in json_data_tbl : r.hash = h

RECURSIVE AncestorAt(_, _)
AncestorAt(i, n) ==
    IF n = 0 THEN i
    ELSE AncestorAt(bpmn_process_tbl[i].direct_parent_process_id, n - 1)

\* the nesting depth of row i: the number of rows that enclose it
RECURSIVE Depth(_)
Depth(i) ==
    IF bpmn_process_tbl[i].guid = ""
       \/ bpmn_process_tbl[i].direct_parent_process_id \notin ProcessRows
    THEN 0
    ELSE 1 + Depth(bpmn_process_tbl[i].direct_parent_process_id)

\* r is the chain of the d + 1 rows from the top level row down to row own,
\* with the d tasks that stand for a row in the row enclosing it
IsWholeChain(r, own, d) ==
    /\ r.err = "none"
    /\ Len(r.bpmn_processes) = d + 1
    /\ Len(r.task_models) = d
    /\ bpmn_process_tbl[r.bpmn_processes[1]].guid = ""
    /\ r.bpmn_processes[d + 1] = own
    /\ \A k \in 1..d :
          /\ r.bpmn_processes[k] = AncestorAt(own, d + 1 - k)
          /\ r.task_models[k] \in TaskRows
          /\ r.task_models[k] = bpmn_process_tbl[r.bpmn_processes[k + 1]].guid

\* C16: for every stored task, task_models_of_parent_bpmn_processes without
\* the stop flag returns, d being the depth of the task's row, d + 1 process
\* rows from the top level row (guid null) down to the task's own row and d
\* boundary tasks, the k-th of them carrying the guid of the (k+1)-th row.
AncestorChainOutermostFirst ==
    \A g \in TaskRows :
        IsWholeChain(TaskModelsOfParentBpmnProcesses(task_tbl[g], FALSE),
                     task_tbl[g].bpmn_process_id,
                     Depth(task_tbl[g].bpmn_process_id))

\* a task of a sub workflow of a sub workflow is stored
AncestorChainOutermostFirstWitness ==
    \E g \in TaskRows :
        /\ Depth(task_tbl[g].bpmn_process_id) = 2
        /\ Len(TaskModelsOfParentBpmnProcesses(task_tbl[g], FALSE).task_models) = 2

\* the type of the stored boundary task g
IsCallActivity(g) ==
    g \in TaskRows /\ task_tbl[g].task_definition.typename = "CallActivity"

\* r is the chain from the row a call activity invokes, or else the top
\* level row, down to row own, no boundary task inside it a call activity
IsChainFromCallActivity(r, own) ==
    /\ r.err = "none"
    /\ Len(r.bpmn_processes) >= 1
    /\ Len(r.task_models) \in {Len(r.bpmn_processes) - 1, Len(r.bpmn_processes)}
    /\ r.bpmn_processes[Len(r.bpmn_processes)] = own
    /\ \A k \in 1..Len(r.bpmn_processes) :
          r.bpmn_processes[k] = AncestorAt(own, Len(r.bpmn_processes) - k)
    /\ IF Len(r.task_models) = Len(r.bpmn_processes)
       THEN /\ IsCallActivity(r.task_models[1])
            /\ bpmn_process_tbl[r.bpmn_processes[1]].guid = r.task_models[1]
            /\ \A k \in 2..Len(r.task_models) :
                  /\ ~IsCallActivity(r.task_models[k])
                  /\ bpmn_process_tbl[r.bpmn_processes[k]].guid = r.task_models[k]
       ELSE /\ bpmn_process_tbl[r.bpmn_processes[1]].guid = ""
            /\ \A k \in 1..Len(r.task_models) :
                  /\ ~IsCallActivity(r.task_models[k])
                  /\ bpmn_process_tbl[r.bpmn_processes[k + 1]].guid = r.task_models[k]

\* C17: for every stored task, the walk with the stop flag ends at the
\* nearest enclosing boundary task that is a call activity: its first row is
\* the row that call activity invokes, or the top level row when no boundary
\* task on the way is a call activity, and
\* bpmn_process_for_called_activity_or_top_level_process returns that row.
AncestorChainStopsAtCallActivity ==
    \A g \in TaskRows :
        /\ IsChainFromCallActivity(
               TaskModelsOfParentBpmnProcesses(task_tbl[g], TRUE),
               task_tbl[g].bpmn_process_id)
        /\ BpmnProcessForCalledActivityOrTopLevelProcess(task_tbl[g])
              = TaskModelsOfParentBpmnProcesses(task_tbl[g], TRUE).bpmn_processes[1]

\* a stored task of the sub process S2: the walk passes the sub process
\* boundary b2 and stops at the call activity b1, whose row is not the top one
AncestorChainStopsAtCallActivityWitness ==
    \E g \in TaskRows :
        /\ TaskWorkflow[g] = "S2"
        /\ TaskModelsOfParentBpmnProcesses(task_tbl[g], TRUE).task_models
              = <<"b1", "b2">>
        /\ bpmn_process_tbl[
               BpmnProcessForCalledActivityOrTopLevelProcess(task_tbl[g])].guid
              = "b1"

\* the stored rows of a set of ids, in the order of their ids
RowsOf(nodes) ==
    LET IsNode(i) == i \in nodes
    IN  SelectSeq(AllBpmnProcessIds, IsNode)

\* following direct_parent_process_id from row i leads into nodes
RECURSIVE LeadsInto(_, _, _)
LeadsInto(i, nodes, n) ==
    \/ i \in nodes
    \/ /\ n > 0
       /\ bpmn_process_tbl[i].direct_parent_process_id \in ProcessRows
       /\ LeadsInto(bpmn_process_tbl[i].direct_parent_process_id, nodes, n - 1)

\* the set of the elements of a sequence
Elements(seq) == {seq[k] : k \in 1..Len(seq)}

\* C18: for every set of stored process rows, bpmn_process_and_descendants
\* returns, as a set, the given rows and every row whose chain of
\* direct_parent_process_id leads into the given set, and no other row.
DescendantsAreExactlyTheSubtrees ==
    \A nodes \in SUBSET ProcessRows :
        Elements(BpmnProcessAndDescendants(RowsOf(nodes)))
            = {i \in ProcessRows : LeadsInto(i, nodes, Len(bpmn_process_tbl))}

\* three rows are stored, the third two levels below the first: asked for
\* the first the query returns all three, asked for the second not the first
DescendantsAreExactlyTheSubtreesWitness ==
    /\ Len(bpmn_process_tbl) = 3
    /\ Elements(BpmnProcessAndDescendants(<<1>>)) = {1, 2, 3}
    /\ \E i \in ProcessRows :
          Cardinality(Elements(BpmnProcessAndDescendants(<<i>>))) = 2

\* path names the d + 1 rows from the top level row down to row own
IsWholePath(r, own, d) ==
    /\ r.err = "none"
    /\ Len(r.path) = d + 1
    /\ \A k \in 1..(d + 1) :
          r.path[k] =
              bpmn_process_tbl[AncestorAt(own, d + 1 - k)].bpmn_process_definition
    /\ bpmn_process_tbl[AncestorAt(own, d)].guid = ""

\* C19: for every stored process row at depth d, full_bpmn_process_path
\* returns d + 1 identifiers, the first the top level row's, the last the
\* row's own, one for each enclosing row in between, outermost first.
FullPathOutermostToInnermost ==
    \A i \in ProcessRows : IsWholePath(FullBpmnProcessPath(i), i, Depth(i))

\* the row of S2 is stored and its path names the three workflows
FullPathOutermostToInnermostWitness ==
    \E i \in ProcessRows :
        /\ Depth(i) = 2
        /\ FullBpmnProcessPath(i).path = <<"top", "S1", "S2">>

\* two payloads with the same items, in whatever order of their keys
SameItems(d1, d2) ==
    /\ Len(d1) = Len(d2)
    /\ {d1[k] : k \in 1..Len(d1)} = {d2[k] : k \in 1..Len(d2)}

\* the hash columns of a task row
HashColumns == {"json_data_hash", "python_env_data_hash"}

\* the data the pass hashed for column c of task g
HashedData(g, c) ==
    IF c = "json_data_hash" THEN LiveTaskData(g) ELSE python_env

\* C20: payloads with the same items have the same digest whatever the order
\* of their keys; every json data dict is buffered under the digest of its
\* own data, which is also the hash of a stored row with the same items; and
\* when a pass flushes, the hash on every task model it buffered is the digest
\* of the data the pass read for it, the payload buffered under that digest
\* having those items.
HashIsOrderIndependentDigest ==
    /\ \A d1 \in Payloads, d2 \in Payloads :
          SameItems(d1, d2) => DataHash(d1) = DataHash(d2)
    /\ \A h \in DOMAIN json_data_dicts :
          /\ DataHash(json_data_dicts[h]) = h
          /\ \A r \in json_data_tbl :
                SameItems(r.data, json_data_dicts[h]) => r.hash = h
    /\ PassFlushed =>
          \A g \in DOMAIN task_models : \A c \in HashColumns :
             /\ task_models[g][c] = DataHash(HashedData(g, c))
             /\ task_models[g][c] \in DOMAIN json_data_dicts =>
                   SameItems(json_data_dicts[task_models[g][c]], HashedData(g, c))

\* a pass flushed a task model whose payload is buffered under the hash of a
\* stored row that lists the same keys in the other order
HashIsOrderIndependentDigestWitness ==
    /\ PassFlushed
    /\ \E g \in DOMAIN task_models :
          /\ task_models[g].json_data_hash \in DOMAIN json_data_dicts
          /\ \E r \in json_data_tbl :
                /\ r.hash = task_models[g].json_data_hash
                /\ r.data # json_data_dicts[r.hash]

\* the positions of the update log of the latest pass
UpdateCalls == 1..Len(task_models_updated)

\* the last call of the latest pass that updated task g
LastUpdateOf(g) ==
    CHOOSE k \in UpdateCalls :
        /\ task_models_updated[k].guid = g
        /\ \A j \in UpdateCalls : task_models_updated[j].guid = g => j <= k

\* the time the latest pass read from the clock
PassClock == WallClock - 1

\* the end time given, else the start time given, else the clock
ExplicitTimestamp(times) ==
    IF times.given /\ times.end_in_seconds # 0 THEN times.end_in_seconds
    ELSE IF times.given /\ times.start_in_seconds # 0 THEN times.start_in_seconds
    ELSE PassClock

\* C21: when a pass flushes, a guid has a buffered task_completed event
\* exactly when an update_task_model_with_spiff_task call of the pass left
\* the task COMPLETED, and the timestamp of the event is the end time given
\* to the call, else the start time given, else the wall clock of the pass.
CompletedEventBufferedWithGivenTime ==
    PassFlushed =>
        /\ \A k \in UpdateCalls :
              task_models_updated[k].state = "COMPLETED"
                  <=> task_models_updated[k].guid \in DOMAIN process_instance_events
        /\ \A g \in DOMAIN process_instance_events :
              /\ \E k \in UpdateCalls : task_models_updated[k].guid = g
              /\ process_instance_events[g].event_type = "task_completed"
              /\ process_instance_events[g].timestamp
                    = ExplicitTimestamp(task_models_updated[LastUpdateOf(g)].times)

\* the boundary tasks that enclose workflow w, innermost first
RECURSIVE Boundaries(_)
Boundaries(w) ==
    IF OuterWorkflow[w] = w THEN <<>>
    ELSE <<SubprocessKey[w]>> \o Boundaries(OuterWorkflow[w])

\* the guids of the update calls a step added to the log
NewUpdates(before, after) ==
    [k \in 1..(Len(after.updated) - Len(before.updated)) |->
        after.updated[Len(before.updated) + k].guid]

\* task t is below task b in the task tree
RECURSIVE IsBelow(_, _)
IsBelow(t, b) ==
    /\ TaskParent[t] # ""
    /\ (TaskParent[t] = b \/ IsBelow(TaskParent[t], b))

\* calls is the ascent from a task of workflow w: the boundary tasks that
\* enclose w, once each and innermost first, every child of a boundary task
\* that is not predicted after it, and no task that is not below one of them
IsAscent(calls, w) ==
    LET IsBoundary(g) == InSeq(g, Boundaries(w))
    IN  /\ SelectSeq(calls, IsBoundary) = Boundaries(w)
        /\ \A k \in 1..Len(calls) :
              \/ IsBoundary(calls[k])
              \/ \E j \in 1..(k - 1) :
                    IsBoundary(calls[j]) /\ IsBelow(calls[k], calls[j])
        /\ \A j \in 1..Len(calls) :
              IsBoundary(calls[j]) =>
                  \A i \in 1..Len(TaskChildren[calls[j]]) :
                      \/ HasPredictedState(live_state[TaskChildren[calls[j]][i]])
                      \/ \E k \in (j + 1)..Len(calls) :
                            calls[k] = TaskChildren[calls[j]][i]

ChildrenOfWrittenTasksAreStored ==
    PassFlushed =>
        \A g \in DOMAIN task_models :
            \A i \in 1..Len(task_tbl[g].properties_json.children) :
                task_tbl[g].properties_json.children[i] \in TaskRows

\* C24: every stored task row points at a stored process row, and that row
\* stands for the live workflow the task is part of: the row with guid null
\* for a task of the top level workflow, otherwise the row whose guid is the
\* key of the task's workflow among the sub processes.
TaskRowPointsAtOwningProcess ==
    \A g \in TaskRows :
        /\ task_tbl[g].bpmn_process_id \in ProcessRows
        /\ bpmn_process_tbl[task_tbl[g].bpmn_process_id].guid
              = SubprocessKey[TaskWorkflow[g]]
        /\ bpmn_process_tbl[task_tbl[g].bpmn_process_id].bpmn_process_definition
              = TaskWorkflow[g]

\* tasks of the top level workflow, of S1 and of S2 are stored
TaskRowPointsAtOwningProcessWitness ==
    \A w \in Workflows : \E g \in TaskRows : TaskWorkflow[g] = w

\* the Start task of workflow w
StartTask(w) == CHOOSE t \in Tasks : TaskWorkflow[t] = w /\ TaskSpecName[t] = "Start"

\* C25: every stored task row of a Start task has parent null in its
\* properties_json, no Root task has a row, and the root in the
\* properties_json of every stored process row is the guid of the Start task
\* of its workflow.
StartTaskIsRootWithoutParent ==
    /\ \A g \in TaskRows :
          /\ TaskSpecName[g] # "Root"
          /\ task_tbl[g].properties_json.task_spec # "Root"
          /\ (TaskSpecName[g] = "Start"
                 \/ task_tbl[g].properties_json.task_spec = "Start")
                => task_tbl[g].properties_json.parent = ""
    /\ \A i \in ProcessRows :
          bpmn_process_tbl[i].properties_json.root
              = StartTask(bpmn_process_tbl[i].bpmn_process_definition)

\* the Start tasks of the top level workflow and of a sub workflow are
\* stored, the one of the sub workflow after an update call of a pass
StartTaskIsRootWithoutParentWitness ==
    /\ PassFlushed
    /\ {"s0", "s1"} \subseteq TaskRows
    /\ \E k \in UpdateCalls : task_models_updated[k].guid = "s0"
    /\ Len(bpmn_process_tbl) >= 2

\* the hashes of the stored json data rows
StoredHashes == {r.hash : r \in json_data_tbl}

\* C26: no pass and no reset_task_model call removes a stored row: across
\* every step the guids of the task rows, the process rows (each keeping its
\* id and guid), the hashes of the json data rows and the bag of events only
\* grow.
StorageOnlyGrows ==
    [][/\ TaskRows \subseteq TaskRows'
       /\ \A g \in TaskRows : task_row_count[g] <= task_row_count'[g]
       /\ ProcessRows \subseteq ProcessRows'
       /\ \A i \in ProcessRows :
             bpmn_process_tbl'[i].guid = bpmn_process_tbl[i].guid
       /\ StoredHashes \subseteq StoredHashes'
       /\ process_instance_event_tbl \sqsubseteq process_instance_event_tbl']_vars

\* a second pass has flushed while rows, events and json data that it did
\* not buffer are stored
StorageOnlyGrowsWitness ==
    /\ PassFlushed
    /\ passes = 2
    /\ \E g \in TaskRows : g \notin DOMAIN task_models
    /\ \E h \in StoredHashes : h \notin DOMAIN json_data_dicts
    /\ \E e \in BagToSet(process_instance_event_tbl) :
          e.task_guid \notin DOMAIN process_instance_events


-----------------------------------------------------------------------------
\* C27: after any sequence of flushes and reset_task_model calls, every
\* json_data_hash and python_env_data_hash of a stored task and every
\* json_data_hash of a stored bpmn process is the hash of a stored json data
\* record, the hash of the empty dict that reset_task_model sets included.
EmptyPayloadHash == Sha256HexDigest(JsonDumpsSortKeys(EmptyPayload))

-----------------------------------------------------------------------------
\* C28: after every update of a task model in a pass and after every
\* reset_task_model, the state column of the task is the name of the state
\* number in its properties_json.
StateColumnMatchesSnapshot ==
    /\ \A g \in TaskRows :
          task_tbl[g].state = TaskStateNames[task_tbl[g].properties_json.state]
    /\ \A g \in DOMAIN task_models :
          task_models[g].state = TaskStateNames[task_models[g].properties_json.state]

\* a task stored as COMPLETED has been reset to READY
StateColumnMatchesSnapshotWitness ==
    /\ last_op.op = "reset"
    /\ live_state[last_op.task] = TaskState.COMPLETED
    /\ task_tbl[last_op.task].state = "READY"
    /\ task_tbl[last_op.task].properties_json.state = TaskState.READY
    /\ \E g \in TaskRows : task_tbl[g].state = "COMPLETED"

====
